---- MODULE Spec2Model ----
(***************************************************************************)
(* Model of registry/src/accounts/member.rs: the Member staking ledger,    *)
(* its books, and the query and bookkeeping operations of impl Member.     *)
(***************************************************************************)
EXTENDS Integers, Naturals, Sequences, FiniteSets, TLC

\* ---------------------------------------------------------------- bounds
\* u64 is modelled with a reduced word: every counter lives in 0..U64-1.
WordBits == 12
U64 == 2 ^ WordBits
U64Max == U64 - 1
\* pubkeys are 0..MaxKey; 0 is Pubkey::default()
MaxKey == 2
Keys == 0..MaxKey
\* amounts an orchestrator passes to the bookkeeping calls
MaxAmount == 1
Amounts == 0..MaxAmount
\* number of calls in one behaviour
MaxOps == 3

VARIABLES
    member,           \* the Member record
    overflow_checks,  \* build profile: TRUE = arithmetic overflow panics, FALSE = it wraps
    call,             \* the last call made on the Member: its name and outcome
    ops,              \* number of calls made so far
    hist              \* the calls of a tracked call sequence, each with the Member before it

vars == <<member, overflow_checks, call, ops, hist>>

\* ------------------------------------------------------- u64 arithmetic
\* A panicked computation is the value Panic; it absorbs further arithmetic.
Panic == -1

add(a, b) ==
    IF a = Panic \/ b = Panic THEN Panic
    ELSE IF a + b > U64Max
         THEN (IF overflow_checks THEN Panic ELSE (a + b) % U64)
         ELSE a + b

sub(a, b) ==
    IF a = Panic \/ b = Panic THEN Panic
    ELSE IF a < b
         THEN (IF overflow_checks THEN Panic ELSE a - b + U64)
         ELSE a - b

\* ------------------------------------------------------------ PoolPrices
\* A snapshot prices one pool-share token of each pool in (primary, mega).
DefaultPrices == [valid |-> TRUE, basket |-> <<0, 0>>, mega_basket |-> <<0, 0>>]

PriceSet ==
    { [valid |-> TRUE,  basket |-> <<1, 0>>, mega_basket |-> <<1, 1>>],
      [valid |-> TRUE,  basket |-> <<2, 1>>, mega_basket |-> <<0, 1>>],
      [valid |-> FALSE, basket |-> <<1, 0>>, mega_basket |-> <<1, 1>>] }

PricingError == <<>>

basket_quantities(prices, spt_count, mega) ==
    LET b == IF mega THEN prices.mega_basket ELSE prices.basket
    IN  IF ~prices.valid \/ b[1] * spt_count > U64Max \/ b[2] * spt_count > U64Max
        THEN PricingError
        ELSE <<b[1] * spt_count, b[2] * spt_count>>

\* ------------------------------------------------------------ data model
Balances(d, md) == [deposit |-> d, mega_deposit |-> md]

DefaultBalances == Balances(0, 0)

Book(owner, balances) == [owner |-> owner, balances |-> balances]

MemberBooks_new(beneficiary, delegate) ==
    [ spt_amount        |-> 0,
      spt_mega_amount   |-> 0,
      stake_intent      |-> 0,
      mega_stake_intent |-> 0,
      main              |-> Book(beneficiary, DefaultBalances),
      delegate          |-> Book(delegate, DefaultBalances) ]

Watchtower_new(authority, dst) == [authority |-> authority, dst |-> dst]

Member(beneficiary, delegate) ==
    [ initialized        |-> TRUE,
      registrar          |-> 1,
      entity             |-> 2,
      beneficiary        |-> beneficiary,
      generation         |-> 0,
      watchtower         |-> Watchtower_new(0, 0),
      books              |-> MemberBooks_new(beneficiary, delegate),
      last_active_prices |-> DefaultPrices ]

\* The outcome of a Balances::is_empty call: "true", "false" or "panic".
is_empty(balances) ==
    LET sum == add(balances.deposit, balances.mega_deposit)
    IN  IF sum = Panic THEN "panic" ELSE IF sum = 0 THEN "true" ELSE "false"

\* ------------------------------------------------------ query operations
\* Outcomes of a query: Ok(true), an error code, or a panic.
OkTrue == "Ok(true)"
InsufficientStakeIntentBalance == "InsufficientStakeIntentBalance"
InsufficientBalance == "InsufficientBalance"
PricingFailed == "PricingError"
Panicked == "panic"

\* can_afford with the mega reserve checked for every mint, mega or not.
can_afford_mega_always(self, prices, spt_amount, mega) ==
    LET purchase_price == basket_quantities(prices, spt_amount, mega)
    IN  IF purchase_price = PricingError THEN PricingFailed
        ELSE IF self.books.stake_intent < purchase_price[1]
             THEN InsufficientStakeIntentBalance
        ELSE IF self.books.mega_stake_intent < purchase_price[2]
             THEN InsufficientStakeIntentBalance
        ELSE OkTrue

\* can_afford that never looks at the mega reserve.
can_afford_skips_mega(self, prices, spt_amount, mega) ==
    LET purchase_price == basket_quantities(prices, spt_amount, mega)
    IN  IF purchase_price = PricingError THEN PricingFailed
        ELSE IF self.books.stake_intent < purchase_price[1]
             THEN InsufficientStakeIntentBalance
        ELSE OkTrue

can_afford(self, prices, spt_amount, mega) ==
    LET purchase_price == basket_quantities(prices, spt_amount, mega)
    IN  IF purchase_price = PricingError THEN PricingFailed
        ELSE IF self.books.stake_intent < purchase_price[1]
             THEN InsufficientStakeIntentBalance
        ELSE IF mega /\ self.books.mega_stake_intent < purchase_price[2]
             THEN InsufficientStakeIntentBalance
        ELSE OkTrue

\* can_withdraw rejecting a primary withdrawal that leaves exactly the principal.
can_withdraw_off_by_one(self, prices, amount, mega, owner) ==
    LET delegate    == self.books.delegate.owner = owner
        basket      == basket_quantities(prices, self.books.spt_amount, FALSE)
        mega_basket == basket_quantities(prices, self.books.spt_mega_amount, TRUE)
    IN  IF basket = PricingError \/ mega_basket = PricingError THEN PricingFailed
        ELSE IF mega
        THEN IF amount > self.books.mega_stake_intent
             THEN InsufficientStakeIntentBalance
             ELSE IF ~delegate
             THEN LET remaining_msrm ==
                          sub(add(basket[2], self.books.mega_stake_intent), amount)
                  IN  IF remaining_msrm = Panic THEN Panicked
                      ELSE IF remaining_msrm < self.books.delegate.balances.mega_deposit
                           THEN InsufficientBalance
                           ELSE OkTrue
             ELSE OkTrue
        ELSE IF amount > self.books.stake_intent
             THEN InsufficientStakeIntentBalance
             ELSE IF ~delegate
             THEN LET remaining_srm ==
                          sub(add(add(basket[1], mega_basket[1]),
                                  self.books.stake_intent), amount)
                  IN  IF remaining_srm = Panic THEN Panicked
                      ELSE IF remaining_srm <= self.books.delegate.balances.deposit
                           THEN InsufficientBalance
                           ELSE OkTrue
             ELSE OkTrue

\* can_withdraw applying the delegate cross-check to the delegate as well.
can_withdraw_no_delegate(self, prices, amount, mega, owner) ==
    LET delegate    == FALSE
        basket      == basket_quantities(prices, self.books.spt_amount, FALSE)
        mega_basket == basket_quantities(prices, self.books.spt_mega_amount, TRUE)
    IN  IF basket = PricingError \/ mega_basket = PricingError THEN PricingFailed
        ELSE IF mega
        THEN IF amount > self.books.mega_stake_intent
             THEN InsufficientStakeIntentBalance
             ELSE IF ~delegate
             THEN LET remaining_msrm ==
                          sub(add(basket[2], self.books.mega_stake_intent), amount)
                  IN  IF remaining_msrm = Panic THEN Panicked
                      ELSE IF remaining_msrm < self.books.delegate.balances.mega_deposit
                           THEN InsufficientBalance
                           ELSE OkTrue
             ELSE OkTrue
        ELSE IF amount > self.books.stake_intent
             THEN InsufficientStakeIntentBalance
             ELSE IF ~delegate
             THEN LET remaining_srm ==
                          sub(add(add(basket[1], mega_basket[1]),
                                  self.books.stake_intent), amount)
                  IN  IF remaining_srm = Panic THEN Panicked
                      ELSE IF remaining_srm < self.books.delegate.balances.deposit
                           THEN InsufficientBalance
                           ELSE OkTrue
             ELSE OkTrue

\* can_withdraw bounding a mega withdrawal by the primary reserve.
can_withdraw_wrong_reserve(self, prices, amount, mega, owner) ==
    LET delegate    == self.books.delegate.owner = owner
        basket      == basket_quantities(prices, self.books.spt_amount, FALSE)
        mega_basket == basket_quantities(prices, self.books.spt_mega_amount, TRUE)
    IN  IF basket = PricingError \/ mega_basket = PricingError THEN PricingFailed
        ELSE IF mega
        THEN IF amount > self.books.stake_intent
             THEN InsufficientStakeIntentBalance
             ELSE IF ~delegate
             THEN LET remaining_msrm ==
                          sub(add(basket[2], self.books.mega_stake_intent), amount)
                  IN  IF remaining_msrm = Panic THEN Panicked
                      ELSE IF remaining_msrm < self.books.delegate.balances.mega_deposit
                           THEN InsufficientBalance
                           ELSE OkTrue
             ELSE OkTrue
        ELSE IF amount > self.books.stake_intent
             THEN InsufficientStakeIntentBalance
             ELSE IF ~delegate
             THEN LET remaining_srm ==
                          sub(add(add(basket[1], mega_basket[1]),
                                  self.books.stake_intent), amount)
                  IN  IF remaining_srm = Panic THEN Panicked
                      ELSE IF remaining_srm < self.books.delegate.balances.deposit
                           THEN InsufficientBalance
                           ELSE OkTrue
             ELSE OkTrue

can_withdraw(self, prices, amount, mega, owner) ==
    LET delegate    == self.books.delegate.owner = owner
        basket      == basket_quantities(prices, self.books.spt_amount, FALSE)
        mega_basket == basket_quantities(prices, self.books.spt_mega_amount, TRUE)
    IN  IF basket = PricingError \/ mega_basket = PricingError THEN PricingFailed
        ELSE IF mega
        THEN IF amount > self.books.mega_stake_intent
             THEN InsufficientStakeIntentBalance
             ELSE IF ~delegate
             THEN LET remaining_msrm ==
                          sub(add(basket[2], self.books.mega_stake_intent), amount)
                  IN  IF remaining_msrm = Panic THEN Panicked
                      ELSE IF remaining_msrm < self.books.delegate.balances.mega_deposit
                           THEN InsufficientBalance
                           ELSE OkTrue
             ELSE OkTrue
        ELSE IF amount > self.books.stake_intent
             THEN InsufficientStakeIntentBalance
             ELSE IF ~delegate
             THEN LET remaining_srm ==
                          sub(add(add(basket[1], mega_basket[1]),
                                  self.books.stake_intent), amount)
                  IN  IF remaining_srm = Panic THEN Panicked
                      ELSE IF remaining_srm < self.books.delegate.balances.deposit
                           THEN InsufficientBalance
                           ELSE OkTrue
             ELSE OkTrue

stake_is_empty(self) ==
    self.books.spt_amount = 0 /\ self.books.spt_mega_amount = 0

\* --------------------------------------------------- mutation operations
\* A mutation yields [status, self]: status is "ok", an error code returned
\* to the caller, or "panic"; self is the Member the call leaves behind
\* (a panicking call leaves none: the enclosing operation is aborted).
Outcome(status, self) == [status |-> status, self |-> self]

\* Any counter of the books that holds Panic marks the whole call as panicked.
BooksPanicked(b) ==
    Panic \in { b.spt_amount, b.spt_mega_amount, b.stake_intent, b.mega_stake_intent,
                b.main.balances.deposit, b.main.balances.mega_deposit,
                b.delegate.balances.deposit, b.delegate.balances.mega_deposit }

Finish(old, new) ==
    IF BooksPanicked(new.books) THEN Outcome(Panicked, old) ELSE Outcome("ok", new)

\* set_delegate without the assertion on mega_deposit.
set_delegate_one_assert(self, delegate) ==
    IF self.books.delegate.balances.deposit # 0 THEN Outcome(Panicked, self)
    ELSE Outcome("ok", [self EXCEPT !.books.delegate = Book(delegate, DefaultBalances)])

\* set_delegate replacing the main book instead of the delegate book.
set_delegate_replaces_main(self, delegate) ==
    IF self.books.delegate.balances.deposit # 0 THEN Outcome(Panicked, self)
    ELSE IF self.books.delegate.balances.mega_deposit # 0 THEN Outcome(Panicked, self)
    ELSE Outcome("ok", [self EXCEPT !.books.main = Book(delegate, DefaultBalances)])

set_delegate(self, delegate) ==
    IF self.books.delegate.balances.deposit # 0 THEN Outcome(Panicked, self)
    ELSE IF self.books.delegate.balances.mega_deposit # 0 THEN Outcome(Panicked, self)
    ELSE Outcome("ok", [self EXCEPT !.books.delegate = Book(delegate, DefaultBalances)])

\* did_deposit crediting the main book only for the owner of the main book.
did_deposit_by_beneficiary(self, amount, mega, owner) ==
    LET s1 == IF mega
              THEN [self EXCEPT !.books.mega_stake_intent = add(@, amount)]
              ELSE [self EXCEPT !.books.stake_intent = add(@, amount)]
        delegate == owner # s1.books.main.owner
        s2 == IF delegate
              THEN IF mega
                   THEN [s1 EXCEPT !.books.delegate.balances.mega_deposit = add(@, amount)]
                   ELSE [s1 EXCEPT !.books.delegate.balances.deposit = add(@, amount)]
              ELSE IF mega
                   THEN [s1 EXCEPT !.books.main.balances.mega_deposit = add(@, amount)]
                   ELSE [s1 EXCEPT !.books.main.balances.deposit = add(@, amount)]
    IN  Finish(self, s2)

did_deposit(self, amount, mega, owner) ==
    LET s1 == IF mega
              THEN [self EXCEPT !.books.mega_stake_intent = add(@, amount)]
              ELSE [self EXCEPT !.books.stake_intent = add(@, amount)]
        delegate == owner = s1.books.delegate.owner
        s2 == IF delegate
              THEN IF mega
                   THEN [s1 EXCEPT !.books.delegate.balances.mega_deposit = add(@, amount)]
                   ELSE [s1 EXCEPT !.books.delegate.balances.deposit = add(@, amount)]
              ELSE IF mega
                   THEN [s1 EXCEPT !.books.main.balances.mega_deposit = add(@, amount)]
                   ELSE [s1 EXCEPT !.books.main.balances.deposit = add(@, amount)]
    IN  Finish(self, s2)

\* did_withdraw debiting the main book whoever the owner is.
did_withdraw_main_only(self, amount, mega, owner) ==
    LET s1 == IF mega
              THEN [self EXCEPT !.books.mega_stake_intent = sub(@, amount)]
              ELSE [self EXCEPT !.books.stake_intent = sub(@, amount)]
        s2 == IF mega
              THEN [s1 EXCEPT !.books.main.balances.mega_deposit = sub(@, amount)]
              ELSE [s1 EXCEPT !.books.main.balances.deposit = sub(@, amount)]
    IN  Finish(self, s2)

did_withdraw(self, amount, mega, owner) ==
    LET s1 == IF mega
              THEN [self EXCEPT !.books.mega_stake_intent = sub(@, amount)]
              ELSE [self EXCEPT !.books.stake_intent = sub(@, amount)]
        delegate == owner = s1.books.delegate.owner
        s2 == IF delegate
              THEN IF mega
                   THEN [s1 EXCEPT !.books.delegate.balances.mega_deposit = sub(@, amount)]
                   ELSE [s1 EXCEPT !.books.delegate.balances.deposit = sub(@, amount)]
              ELSE IF mega
                   THEN [s1 EXCEPT !.books.main.balances.mega_deposit = sub(@, amount)]
                   ELSE [s1 EXCEPT !.books.main.balances.deposit = sub(@, amount)]
    IN  Finish(self, s2)

\* spt_did_create debiting the mega reserve for a primary mint as well.
spt_did_create_debits_both(self, prices, amount, mega) ==
    LET s1 == IF mega
              THEN [self EXCEPT !.books.spt_mega_amount = add(@, amount)]
              ELSE [self EXCEPT !.books.spt_amount = add(@, amount)]
        basket == basket_quantities(prices, amount, mega)
    IN  IF BooksPanicked(s1.books) THEN Outcome(Panicked, self)
        ELSE IF basket = PricingError THEN Outcome(PricingFailed, s1)
        ELSE LET s2 == [s1 EXCEPT !.books.stake_intent = sub(@, basket[1]),
                                  !.books.mega_stake_intent = sub(@, basket[2])]
                 s3 == [s2 EXCEPT !.last_active_prices = prices]
             IN  Finish(self, s3)

\* spt_did_create that does not record the snapshot.
spt_did_create_keeps_prices(self, prices, amount, mega) ==
    LET s1 == IF mega
              THEN [self EXCEPT !.books.spt_mega_amount = add(@, amount)]
              ELSE [self EXCEPT !.books.spt_amount = add(@, amount)]
        basket == basket_quantities(prices, amount, mega)
    IN  IF BooksPanicked(s1.books) THEN Outcome(Panicked, self)
        ELSE IF basket = PricingError THEN Outcome(PricingFailed, s1)
        ELSE LET s2 == IF mega
                       THEN [s1 EXCEPT !.books.stake_intent = sub(@, basket[1]),
                                       !.books.mega_stake_intent = sub(@, basket[2])]
                       ELSE [s1 EXCEPT !.books.stake_intent = sub(@, basket[1])]
             IN  Finish(self, s2)

spt_did_create(self, prices, amount, mega) ==
    LET s1 == IF mega
              THEN [self EXCEPT !.books.spt_mega_amount = add(@, amount)]
              ELSE [self EXCEPT !.books.spt_amount = add(@, amount)]
        basket == basket_quantities(prices, amount, mega)
    IN  IF BooksPanicked(s1.books) THEN Outcome(Panicked, self)
        ELSE IF basket = PricingError THEN Outcome(PricingFailed, s1)
        ELSE LET s2 == IF mega
                       THEN [s1 EXCEPT !.books.stake_intent = sub(@, basket[1]),
                                       !.books.mega_stake_intent = sub(@, basket[2])]
                       ELSE [s1 EXCEPT !.books.stake_intent = sub(@, basket[1])]
                 s3 == [s2 EXCEPT !.last_active_prices = prices]
             IN  Finish(self, s3)

\* spt_did_redeem_start burning primary pool shares whatever the pool.
spt_did_redeem_start_primary_only(self, spt_amount, mega) ==
    Finish(self, [self EXCEPT !.books.spt_amount = sub(@, spt_amount)])

spt_did_redeem_start(self, spt_amount, mega) ==
    Finish(self,
           IF mega
           THEN [self EXCEPT !.books.spt_mega_amount = sub(@, spt_amount)]
           ELSE [self EXCEPT !.books.spt_amount = sub(@, spt_amount)])

\* spt_did_redeem_end crediting the main book's principal as well.
spt_did_redeem_end_credits_main(self, asset_amount, mega_asset_amount) ==
    Finish(self,
           [self EXCEPT !.books.stake_intent = add(@, asset_amount),
                        !.books.mega_stake_intent = add(@, mega_asset_amount),
                        !.books.main.balances.deposit = add(@, asset_amount)])

spt_did_redeem_end(self, asset_amount, mega_asset_amount) ==
    Finish(self,
           [self EXCEPT !.books.stake_intent = add(@, asset_amount),
                        !.books.mega_stake_intent = add(@, mega_asset_amount)])

\* ------------------------------------------------------------- the calls
NoKey == -1
NoPrices == <<>>

Call(op, result) == [op |-> op, result |-> result]

NoCall == Call("new", "ok")

\* A Member as the registry creates it: the books of MemberBooks::new.
Init ==
    /\ overflow_checks \in BOOLEAN
    /\ member = Member(1, 2)
    /\ call = NoCall
    /\ ops = 0
    /\ hist = <<>>

\* A query takes &self: it leaves the Member alone and reports its outcome.
Query(c) ==
    /\ ops < MaxOps
    /\ ops' = ops + 1
    /\ member' = member
    /\ call' = c
    /\ UNCHANGED overflow_checks

\* A mutation takes &mut self: it leaves behind the Member of its outcome.
Mutate(c, out) ==
    /\ ops < MaxOps
    /\ ops' = ops + 1
    /\ member' = out.self
    /\ call' = c
    /\ UNCHANGED overflow_checks

CanAffordWith(prices, spt_amount, mega) ==
    Query(Call("can_afford", can_afford(member, prices, spt_amount, mega)))

CanWithdrawWith(prices, amount, mega, owner) ==
    Query(Call("can_withdraw", can_withdraw(member, prices, amount, mega, owner)))

StakeIsEmptyCall ==
    Query(Call("stake_is_empty", stake_is_empty(member)))

SetDelegateWith(delegate) ==
    LET out == set_delegate(member, delegate)
    IN  Mutate(Call("set_delegate", out.status), out)

DidDepositWith(amount, mega, owner) ==
    LET out == did_deposit(member, amount, mega, owner)
    IN  Mutate(Call("did_deposit", out.status), out)

DidWithdrawWith(amount, mega, owner) ==
    LET out == did_withdraw(member, amount, mega, owner)
    IN  Mutate(Call("did_withdraw", out.status), out)

SptDidCreateWith(prices, amount, mega) ==
    LET out == spt_did_create(member, prices, amount, mega)
    IN  Mutate(Call("spt_did_create", out.status), out)

SptDidRedeemStartWith(spt_amount, mega) ==
    LET out == spt_did_redeem_start(member, spt_amount, mega)
    IN  Mutate(Call("spt_did_redeem_start", out.status), out)

SptDidRedeemEndWith(asset_amount, mega_asset_amount) ==
    LET out == spt_did_redeem_end(member, asset_amount, mega_asset_amount)
    IN  Mutate(Call("spt_did_redeem_end", out.status), out)

\* ------------------------------------------- Spec: any sequence of calls
CanAfford ==
    /\ \E prices \in PriceSet, spt_amount \in Amounts, mega \in BOOLEAN :
           CanAffordWith(prices, spt_amount, mega)
    /\ UNCHANGED hist

CanWithdraw ==
    /\ \E prices \in PriceSet, amount \in Amounts, mega \in BOOLEAN, owner \in Keys :
           CanWithdrawWith(prices, amount, mega, owner)
    /\ UNCHANGED hist

StakeIsEmpty ==
    /\ StakeIsEmptyCall
    /\ UNCHANGED hist

SetDelegate ==
    /\ \E delegate \in Keys : SetDelegateWith(delegate)
    /\ UNCHANGED hist

DidDeposit ==
    /\ \E amount \in Amounts, mega \in BOOLEAN, owner \in Keys :
           DidDepositWith(amount, mega, owner)
    /\ UNCHANGED hist

DidWithdraw ==
    /\ \E amount \in Amounts, mega \in BOOLEAN, owner \in Keys :
           DidWithdrawWith(amount, mega, owner)
    /\ UNCHANGED hist

SptDidCreate ==
    /\ \E prices \in PriceSet, amount \in Amounts, mega \in BOOLEAN :
           SptDidCreateWith(prices, amount, mega)
    /\ UNCHANGED hist

SptDidRedeemStart ==
    /\ \E spt_amount \in Amounts, mega \in BOOLEAN :
           SptDidRedeemStartWith(spt_amount, mega)
    /\ UNCHANGED hist

SptDidRedeemEnd ==
    /\ \E asset_amount \in Amounts, mega_asset_amount \in Amounts :
           SptDidRedeemEndWith(asset_amount, mega_asset_amount)
    /\ UNCHANGED hist

Next ==
    \/ CanAfford
    \/ CanWithdraw
    \/ StakeIsEmpty
    \/ SetDelegate
    \/ DidDeposit
    \/ DidWithdraw
    \/ SptDidCreate
    \/ SptDidRedeemStart
    \/ SptDidRedeemEnd

Spec == Init /\ [][Next]_vars

\* --------------------------------------------------------- tracked calls
\* The specifications below track their calls: each appends to hist an entry
\* with the call's arguments, its outcome and the Member it was made on.
Entry(op, prices, amount, amount2, mega, owner, before) ==
    [ op |-> op, prices |-> prices, amount |-> amount, amount2 |-> amount2,
      mega |-> mega, owner |-> owner, result |-> call'.result, before |-> before ]

Track(e) == hist' = Append(hist, e)

\* --------------------------- SpecQuery: the queries on any ledger state
\* The fields of a Member are plain u64 counters; the queries are checked
\* on ledgers drawn from representative values of each, up to u64::MAX.
QReserves == {0, 200, 1000, U64Max}
QDeposits == {0, 200, U64Max}
QShares == {0, 2, U64Max}
QAmounts == {0, 700, 850, U64Max}

Ledger(delegate, spt, spt_mega, si, msi, main_bal, delegate_bal) ==
    [ Member(1, delegate) EXCEPT
        !.books.spt_amount = spt,
        !.books.spt_mega_amount = spt_mega,
        !.books.stake_intent = si,
        !.books.mega_stake_intent = msi,
        !.books.main.balances = main_bal,
        !.books.delegate.balances = delegate_bal ]

InitQuery ==
    /\ overflow_checks \in BOOLEAN
    /\ \E delegate \in {1, 2}, spt \in QShares, spt_mega \in QShares,
          si \in QReserves, msi \in QReserves, d \in QDeposits, md \in QDeposits :
           member = Ledger(delegate, spt, spt_mega, si, msi, DefaultBalances, Balances(d, md))
    /\ call = NoCall
    /\ ops = 0
    /\ hist = <<>>

QueryCanAfford ==
    /\ ops = 0
    /\ \E prices \in PriceSet, spt_amount \in QAmounts, mega \in BOOLEAN :
          /\ CanAffordWith(prices, spt_amount, mega)
          /\ Track(Entry("can_afford", prices, spt_amount, 0, mega, NoKey, member))

QueryCanWithdraw ==
    /\ ops = 0
    /\ \E prices \in PriceSet, amount \in QAmounts, mega \in BOOLEAN, owner \in Keys :
          /\ CanWithdrawWith(prices, amount, mega, owner)
          /\ Track(Entry("can_withdraw", prices, amount, 0, mega, owner, member))

QueryStakeIsEmpty ==
    /\ ops = 0
    /\ StakeIsEmptyCall
    /\ Track(Entry("stake_is_empty", NoPrices, 0, 0, FALSE, NoKey, member))

NextQuery ==
    \/ QueryCanAfford
    \/ QueryCanWithdraw
    \/ QueryStakeIsEmpty

SpecQuery == InitQuery /\ [][NextQuery]_vars

\* ------------------- SpecStep: one call of any operation on any ledger
SReserves == {0, 100, U64Max}
SShares == {0, 1, U64Max}
SAmounts == Amounts \cup {100, U64Max}
SMainBalances == {Balances(0, 0), Balances(1, U64Max)}
SDelegateBalances == {Balances(0, 0), Balances(0, 1), Balances(U64Max, U64Max)}
SPrices == {DefaultPrices, [valid |-> TRUE, basket |-> <<1, 0>>, mega_basket |-> <<1, 1>>]}

InitStep ==
    /\ overflow_checks \in BOOLEAN
    /\ \E delegate \in {1, 2}, spt \in SShares, spt_mega \in SShares,
          si \in SReserves, msi \in SReserves,
          mb \in SMainBalances, db \in SDelegateBalances, lap \in SPrices :
           member = [Ledger(delegate, spt, spt_mega, si, msi, mb, db)
                       EXCEPT !.last_active_prices = lap]
    /\ call = NoCall
    /\ ops = 0
    /\ hist = <<>>

StepCanAfford ==
    /\ ops = 0
    /\ \E prices \in PriceSet, spt_amount \in SAmounts, mega \in BOOLEAN :
          /\ CanAffordWith(prices, spt_amount, mega)
          /\ Track(Entry("can_afford", prices, spt_amount, 0, mega, NoKey, member))

StepCanWithdraw ==
    /\ ops = 0
    /\ \E prices \in PriceSet, amount \in SAmounts, mega \in BOOLEAN, owner \in Keys :
          /\ CanWithdrawWith(prices, amount, mega, owner)
          /\ Track(Entry("can_withdraw", prices, amount, 0, mega, owner, member))

StepStakeIsEmpty ==
    /\ ops = 0
    /\ StakeIsEmptyCall
    /\ Track(Entry("stake_is_empty", NoPrices, 0, 0, FALSE, NoKey, member))

StepSetDelegate ==
    /\ ops = 0
    /\ \E delegate \in Keys :
          /\ SetDelegateWith(delegate)
          /\ Track(Entry("set_delegate", NoPrices, 0, 0, FALSE, delegate, member))

StepDidDeposit ==
    /\ ops = 0
    /\ \E amount \in SAmounts, mega \in BOOLEAN, owner \in Keys :
          /\ DidDepositWith(amount, mega, owner)
          /\ Track(Entry("did_deposit", NoPrices, amount, 0, mega, owner, member))

StepDidWithdraw ==
    /\ ops = 0
    /\ \E amount \in SAmounts, mega \in BOOLEAN, owner \in Keys :
          /\ DidWithdrawWith(amount, mega, owner)
          /\ Track(Entry("did_withdraw", NoPrices, amount, 0, mega, owner, member))

StepSptDidCreate ==
    /\ ops = 0
    /\ \E prices \in PriceSet, amount \in SAmounts, mega \in BOOLEAN :
          /\ SptDidCreateWith(prices, amount, mega)
          /\ Track(Entry("spt_did_create", prices, amount, 0, mega, NoKey, member))

StepSptDidRedeemStart ==
    /\ ops = 0
    /\ \E spt_amount \in SAmounts, mega \in BOOLEAN :
          /\ SptDidRedeemStartWith(spt_amount, mega)
          /\ Track(Entry("spt_did_redeem_start", NoPrices, spt_amount, 0, mega, NoKey,
                         member))

StepSptDidRedeemEnd ==
    /\ ops = 0
    /\ \E asset_amount \in SAmounts, mega_asset_amount \in SAmounts :
          /\ SptDidRedeemEndWith(asset_amount, mega_asset_amount)
          /\ Track(Entry("spt_did_redeem_end", NoPrices, asset_amount, mega_asset_amount,
                         FALSE, NoKey, member))

NextStep ==
    \/ StepCanAfford
    \/ StepCanWithdraw
    \/ StepStakeIsEmpty
    \/ StepSetDelegate
    \/ StepDidDeposit
    \/ StepDidWithdraw
    \/ StepSptDidCreate
    \/ StepSptDidRedeemStart
    \/ StepSptDidRedeemEnd

SpecStep == InitStep /\ [][NextStep]_vars

\* ------------- SpecInverse: a deposit and then a withdrawal, on any ledger
IReserves == {0, 1, U64Max}
IDeposits == {0, U64Max}

InitInverse ==
    /\ overflow_checks \in BOOLEAN
    /\ \E delegate \in {1, 2}, si \in IReserves, msi \in IReserves,
          d \in IDeposits, md \in IDeposits, dd \in IDeposits, dmd \in IDeposits :
           member = Ledger(delegate, 0, 0, si, msi, Balances(d, md), Balances(dd, dmd))
    /\ call = NoCall
    /\ ops = 0
    /\ hist = <<>>

InverseDeposit ==
    /\ Len(hist) = 0
    /\ \E amount \in Amounts, mega \in BOOLEAN, owner \in Keys :
          /\ DidDepositWith(amount, mega, owner)
          /\ Track(Entry("did_deposit", NoPrices, amount, 0, mega, owner, member))

InverseWithdraw ==
    /\ Len(hist) = 1
    /\ \E amount \in Amounts, mega \in BOOLEAN, owner \in Keys :
          /\ DidWithdrawWith(amount, mega, owner)
          /\ Track(Entry("did_withdraw", NoPrices, amount, 0, mega, owner, member))

NextInverse ==
    \/ InverseDeposit
    \/ InverseWithdraw

SpecInverse == InitInverse /\ [][NextInverse]_vars

\* ---------- SpecRoundTrip: a mint and the two phases of its redemption
RReserves == {0, 2 * MaxAmount, U64Max}
RShares == {0, U64Max}
\* what a redemption can credit: up to the dearest basket of MaxAmount shares
Credits == 0..(2 * MaxAmount)

InitRoundTrip ==
    /\ overflow_checks \in BOOLEAN
    /\ \E spt \in RShares, spt_mega \in RShares, si \in RReserves, msi \in RReserves :
           member = Ledger(2, spt, spt_mega, si, msi, DefaultBalances, DefaultBalances)
    /\ call = NoCall
    /\ ops = 0
    /\ hist = <<>>

RoundTripCreate ==
    /\ Len(hist) = 0
    /\ \E prices \in PriceSet, amount \in Amounts, mega \in BOOLEAN :
          /\ SptDidCreateWith(prices, amount, mega)
          /\ Track(Entry("spt_did_create", prices, amount, 0, mega, NoKey, member))

RoundTripRedeemStart ==
    /\ Len(hist) = 1
    /\ \E spt_amount \in Amounts, mega \in BOOLEAN :
          /\ SptDidRedeemStartWith(spt_amount, mega)
          /\ Track(Entry("spt_did_redeem_start", NoPrices, spt_amount, 0, mega, NoKey,
                         member))

RoundTripRedeemEnd ==
    /\ Len(hist) = 2
    /\ \E asset_amount \in Credits, mega_asset_amount \in Credits :
          /\ SptDidRedeemEndWith(asset_amount, mega_asset_amount)
          /\ Track(Entry("spt_did_redeem_end", NoPrices, asset_amount, mega_asset_amount,
                         FALSE, NoKey, member))

NextRoundTrip ==
    \/ RoundTripCreate
    \/ RoundTripRedeemStart
    \/ RoundTripRedeemEnd

SpecRoundTrip == InitRoundTrip /\ [][NextRoundTrip]_vars

\* ------------------ SpecBalances: Balances::is_empty on any balances
\* The delegate book after a primary and a mega deposit of the delegate.
BValues == {0, 1, 2, U64 \div 2, U64Max - 1, U64Max}

InitBalances ==
    /\ overflow_checks \in BOOLEAN
    /\ \E d \in BValues, md \in BValues :
          member = Ledger(2, 0, 0, d, md, Balances(0, 0), Balances(d, md))
    /\ call = NoCall
    /\ ops = 0
    /\ hist = <<>>

BalancesIsEmpty ==
    /\ ops = 0
    /\ LET b == member.books.delegate.balances
       IN  /\ Query(Call("is_empty", is_empty(b)))
           /\ Track(Entry("is_empty", NoPrices, b.deposit, b.mega_deposit, FALSE,
                          NoKey, member))

NextBalances == BalancesIsEmpty

SpecBalances == InitBalances /\ [][NextBalances]_vars

\* ------------- SpecWithdraw: can_withdraw, then the withdrawal it allowed
\* The ledger after deposits of the main book's owner and of the delegate
\* and after rewards credited by spt_did_redeem_end; no pool shares held.
WDeposits == {0, 1, 100}
WRewards == {0, 1, 100}
WMega == {0, 1}

InitWithdraw ==
    /\ overflow_checks \in BOOLEAN
    /\ \E delegate \in {1, 2},
          dm \in WDeposits, dd \in WDeposits, rw \in WRewards,
          mm \in WMega, md \in WMega, mrw \in WMega :
           member = Ledger(delegate, 0, 0, dm + dd + rw, mm + md + mrw,
                           Balances(dm, mm), Balances(dd, md))
    /\ call = NoCall
    /\ ops = 0
    /\ hist = <<>>

WithdrawCheck ==
    /\ Len(hist) = 0
    /\ \E prices \in PriceSet, amount \in SAmounts, mega \in BOOLEAN, owner \in Keys :
          /\ CanWithdrawWith(prices, amount, mega, owner)
          /\ Track(Entry("can_withdraw", prices, amount, 0, mega, owner, member))

WithdrawAllowed ==
    /\ Len(hist) = 1
    /\ hist[1].result = OkTrue
    /\ DidWithdrawWith(hist[1].amount, hist[1].mega, hist[1].owner)
    /\ Track(Entry("did_withdraw", NoPrices, hist[1].amount, 0, hist[1].mega,
                   hist[1].owner, member))

NextWithdraw ==
    \/ WithdrawCheck
    \/ WithdrawAllowed

SpecWithdraw == InitWithdraw /\ [][NextWithdraw]_vars

\* ------------------- SpecMint: can_afford, then the mint it allowed
InitMint ==
    /\ overflow_checks \in BOOLEAN
    /\ \E spt \in SShares, spt_mega \in SShares, si \in SReserves, msi \in SReserves :
           member = Ledger(2, spt, spt_mega, si, msi, Balances(0, 0), Balances(0, 0))
    /\ call = NoCall
    /\ ops = 0
    /\ hist = <<>>

MintCheck ==
    /\ Len(hist) = 0
    /\ \E prices \in PriceSet, spt_amount \in SAmounts, mega \in BOOLEAN :
          /\ CanAffordWith(prices, spt_amount, mega)
          /\ Track(Entry("can_afford", prices, spt_amount, 0, mega, NoKey, member))

MintAllowed ==
    /\ Len(hist) = 1
    /\ hist[1].result = OkTrue
    /\ SptDidCreateWith(hist[1].prices, hist[1].amount, hist[1].mega)
    /\ Track(Entry("spt_did_create", hist[1].prices, hist[1].amount, 0, hist[1].mega,
                   NoKey, member))

NextMint ==
    \/ MintCheck
    \/ MintAllowed

SpecMint == InitMint /\ [][NextMint]_vars

\* ------ SpecAttribution: deposits, withdrawals and changes of delegate
\* From MemberBooks::new, without minting or redemption; a call that
\* aborts leaves the Member as it was.
AttributionDeposit ==
    /\ \E amount \in Amounts, mega \in BOOLEAN, owner \in Keys :
          DidDepositWith(amount, mega, owner)
    /\ UNCHANGED hist

AttributionWithdraw ==
    /\ \E amount \in Amounts, mega \in BOOLEAN, owner \in Keys :
          DidWithdrawWith(amount, mega, owner)
    /\ UNCHANGED hist

AttributionSetDelegate ==
    /\ \E delegate \in Keys : SetDelegateWith(delegate)
    /\ UNCHANGED hist

NextAttribution ==
    \/ AttributionDeposit
    \/ AttributionWithdraw
    \/ AttributionSetDelegate

SpecAttribution == Init /\ [][NextAttribution]_vars

\* ------ SpecProtocol: the orchestrator's discipline, one price snapshot
\* Every withdrawal follows a successful can_withdraw, every mint a
\* successful can_afford, and a redemption credits the basket of what it
\* burned, all under the same snapshot.
MarketPrices == [valid |-> TRUE, basket |-> <<1, 0>>, mega_basket |-> <<1, 1>>]

ProtocolDeposit ==
    /\ \E amount \in Amounts, mega \in BOOLEAN, owner \in Keys :
          DidDepositWith(amount, mega, owner)
    /\ UNCHANGED hist

ProtocolWithdraw ==
    /\ \E amount \in Amounts, mega \in BOOLEAN, owner \in Keys :
          /\ can_withdraw(member, MarketPrices, amount, mega, owner) = OkTrue
          /\ DidWithdrawWith(amount, mega, owner)
    /\ UNCHANGED hist

ProtocolCreate ==
    /\ \E amount \in Amounts, mega \in BOOLEAN :
          /\ can_afford(member, MarketPrices, amount, mega) = OkTrue
          /\ SptDidCreateWith(MarketPrices, amount, mega)
    /\ UNCHANGED hist

ProtocolRedeem ==
    /\ \E spt_amount \in Amounts, mega \in BOOLEAN :
          LET started == spt_did_redeem_start(member, spt_amount, mega)
              basket  == basket_quantities(MarketPrices, spt_amount, mega)
              ended   == spt_did_redeem_end(started.self, basket[1], basket[2])
          IN  /\ started.status = "ok"
              /\ Mutate(Call("spt_did_redeem_end", ended.status), ended)
    /\ UNCHANGED hist

NextProtocol ==
    \/ ProtocolDeposit
    \/ ProtocolWithdraw
    \/ ProtocolCreate
    \/ ProtocolRedeem

SpecProtocol == Init /\ [][NextProtocol]_vars

\* ====================================================== the properties
\* Vocabulary of the properties, in unbounded integers.
\* The quantities one pool-share count is worth under a snapshot.
Worth(prices, spt_count, mega) ==
    LET b == IF mega THEN prices.mega_basket ELSE prices.basket
    IN  <<b[1] * spt_count, b[2] * spt_count>>

\* Both basket computations of can_withdraw succeed.
PricingSucceeds(self, prices) ==
    /\ basket_quantities(prices, self.books.spt_amount, FALSE) # PricingError
    /\ basket_quantities(prices, self.books.spt_mega_amount, TRUE) # PricingError

Reserve(self, mega) ==
    IF mega THEN self.books.mega_stake_intent ELSE self.books.stake_intent

DelegatePrincipal(self, mega) ==
    IF mega THEN self.books.delegate.balances.mega_deposit
    ELSE self.books.delegate.balances.deposit

\* What can_withdraw counts as backing the delegate's principal, before the
\* withdrawal: reserve plus the pool-share value it looks at.
Backing(self, prices, mega) ==
    IF mega
    THEN Worth(prices, self.books.spt_amount, FALSE)[2] + self.books.mega_stake_intent
    ELSE Worth(prices, self.books.spt_amount, FALSE)[1]
         + Worth(prices, self.books.spt_mega_amount, TRUE)[1]
         + self.books.stake_intent

\* The tracked calls of one operation.
Calls(op) == { i \in DOMAIN hist : hist[i].op = op }

C3_AsStated ==
    \A i \in Calls("can_withdraw") :
       LET c == hist[i] IN
       c.owner = c.before.books.delegate.owner
       => (c.result = OkTrue <=> c.amount <= Reserve(c.before, c.mega))

\* C3, amended: for the delegate's owner, provided both basket computations
\* succeed, can_withdraw returns true if and only if the amount is within
\* the reserve, whatever the delegate's principal and the holdings are.
C3_DelegateReserveOnly ==
    \A i \in Calls("can_withdraw") :
       LET c == hist[i] IN
       ( /\ c.owner = c.before.books.delegate.owner
         /\ PricingSucceeds(c.before, c.prices) )
       => (c.result = OkTrue <=> c.amount <= Reserve(c.before, c.mega))

\* The delegate's withdrawal was accepted although its principal exceeds
\* everything the member holds.
C3_Witness ==
    \E i \in Calls("can_withdraw") :
       /\ hist[i].owner = member.books.delegate.owner
       /\ hist[i].result = OkTrue
       /\ hist[i].amount = 850
       /\ member.books.delegate.balances = Balances(U64Max, U64Max)
       /\ member.books.stake_intent = 1000 /\ member.books.mega_stake_intent = 1000
       /\ member.books.spt_amount = 2 /\ member.books.spt_mega_amount = 2

\* ------------------------------------------------------------------ C4
\* C4 as stated: for every owner, can_withdraw returns
\* InsufficientStakeIntentBalance whenever the amount exceeds the reserve.
C4_AsStated ==
    \A i \in Calls("can_withdraw") :
       LET c == hist[i] IN
       c.amount > Reserve(c.before, c.mega)
       => c.result = InsufficientStakeIntentBalance

\* C4, amended: the same, provided both basket computations succeed; the
\* error is InsufficientStakeIntentBalance also when the delegate's principal
\* is not covered.
C4_ReserveBoundFirst ==
    \A i \in Calls("can_withdraw") :
       LET c == hist[i] IN
       ( /\ c.amount > Reserve(c.before, c.mega)
         /\ PricingSucceeds(c.before, c.prices) )
       => c.result = InsufficientStakeIntentBalance

\* A non-delegate withdrawal exceeding the reserve was rejected for the
\* reserve although it would also leave the delegate's principal uncovered.
C4_Witness ==
    \E i \in Calls("can_withdraw") :
       LET c == hist[i] IN
       /\ c.owner # c.before.books.delegate.owner
       /\ c.amount > Reserve(c.before, c.mega)
       /\ Backing(c.before, c.prices, c.mega) - c.amount
            < DelegatePrincipal(c.before, c.mega)
       /\ c.result = InsufficientStakeIntentBalance

\* ------------------------------------------------------------------ C5
\* C5: when pricing succeeds, can_afford returns
\* InsufficientStakeIntentBalance if the primary cost exceeds stake_intent,
\* or if the mint is mega and the mega cost exceeds mega_stake_intent, and
\* true otherwise; the call changes no field of the Member.
C5_CanAfford ==
    \A i \in Calls("can_afford") :
       LET c    == hist[i]
           cost == basket_quantities(c.prices, c.amount, c.mega)
       IN  /\ (i = Len(hist) => member = c.before)
           /\ cost # PricingError
              => c.result =
                   IF cost[1] > c.before.books.stake_intent
                      \/ (c.mega /\ cost[2] > c.before.books.mega_stake_intent)
                   THEN InsufficientStakeIntentBalance ELSE OkTrue

\* A primary mint was found affordable although its basket has a mega
\* component and the mega reserve is empty.
C5_Witness ==
    \E i \in Calls("can_afford") :
       LET c == hist[i] IN
       /\ ~c.mega /\ c.result = OkTrue
       /\ basket_quantities(c.prices, c.amount, FALSE)[2] > 0
       /\ member.books.mega_stake_intent = 0

\* ------------------------------------------------------------------ C2
\* The primary and mega value of all pool-share holdings under a snapshot.
HoldingsWorth(self, prices) ==
    LET w  == Worth(prices, self.books.spt_amount, FALSE)
        mw == Worth(prices, self.books.spt_mega_amount, TRUE)
    IN  <<w[1] + mw[1], w[2] + mw[2]>>

\* C2: under the orchestrator's discipline and one price snapshot, the
\* delegate's principal never exceeds the reserve plus the value of all
\* pool-share holdings, for the primary and for the mega asset.
C2_DelegateCovered ==
    /\ member.books.delegate.balances.deposit
         <= member.books.stake_intent + HoldingsWorth(member, MarketPrices)[1]
    /\ member.books.delegate.balances.mega_deposit
         <= member.books.mega_stake_intent + HoldingsWorth(member, MarketPrices)[2]

\* ------------------------------------------------------------------ C6
\* The fields the inverse law is about.
Principal(self) ==
    <<self.books.stake_intent, self.books.mega_stake_intent,
      self.books.main.balances, self.books.delegate.balances>>

\* C6: a did_deposit that returns, followed at once by did_withdraw with the
\* same amount, asset class and owner, leaves both reserves and both books'
\* principal as they were before the deposit, and the withdrawal returns.
C6_DepositWithdrawInverse ==
    ( /\ Len(hist) = 2
      /\ hist[1].op = "did_deposit" /\ hist[1].result = "ok"
      /\ hist[2].op = "did_withdraw"
      /\ hist[2].amount = hist[1].amount
      /\ hist[2].mega = hist[1].mega
      /\ hist[2].owner = hist[1].owner )
    => /\ hist[2].result = "ok"
       /\ Principal(member) = Principal(hist[1].before)

\* A positive deposit for the delegate was withdrawn again, and one for
\* another owner could be.
C6_Witness ==
    /\ Len(hist) = 2
    /\ hist[1].op = "did_deposit" /\ hist[1].result = "ok"
    /\ hist[2].op = "did_withdraw" /\ hist[2].result = "ok"
    /\ hist[2].amount = hist[1].amount /\ hist[1].amount > 0
    /\ hist[2].mega = hist[1].mega
    /\ hist[2].owner = hist[1].owner
    /\ hist[1].owner = hist[1].before.books.delegate.owner
    /\ Principal(hist[2].before) # Principal(hist[1].before)

\* ------------------------------------------------------------------ C7
\* The pool-share and reserve counters of the books.
Counters(self) ==
    <<self.books.stake_intent, self.books.mega_stake_intent,
      self.books.spt_amount, self.books.spt_mega_amount>>

\* What a mint debits from the two reserves.
Debited(prices, amount, mega) ==
    <<Worth(prices, amount, mega)[1],
      IF mega THEN Worth(prices, amount, mega)[2] ELSE 0>>

\* The reserves of a Member cover the basket of a mint.
Covers(self, prices, amount, mega) ==
    /\ Debited(prices, amount, mega)[1] <= self.books.stake_intent
    /\ Debited(prices, amount, mega)[2] <= self.books.mega_stake_intent

\* hist holds a mint the reserves cover, the burn of the same amount of the
\* same pool, and the credit of exactly what the mint debited.
IsRoundTrip ==
    /\ Len(hist) = 3
    /\ hist[1].op = "spt_did_create" /\ hist[1].result = "ok"
    /\ Covers(hist[1].before, hist[1].prices, hist[1].amount, hist[1].mega)
    /\ hist[2].op = "spt_did_redeem_start"
    /\ hist[2].amount = hist[1].amount /\ hist[2].mega = hist[1].mega
    /\ hist[3].op = "spt_did_redeem_end"
    /\ <<hist[3].amount, hist[3].amount2>>
         = Debited(hist[1].prices, hist[1].amount, hist[1].mega)

\* C7: after such a round trip both calls of the redemption have returned
\* and stake_intent, mega_stake_intent, spt_amount and spt_mega_amount have
\* their values from before the mint.
C7_MintRedeemRoundTrip ==
    IsRoundTrip
    => /\ hist[2].result = "ok" /\ hist[3].result = "ok"
       /\ Counters(member) = Counters(hist[1].before)

\* A round trip of a mega mint that debited both reserves.
C7_Witness ==
    /\ IsRoundTrip
    /\ hist[1].mega
    /\ Debited(hist[1].prices, hist[1].amount, TRUE)[1] > 0
    /\ Debited(hist[1].prices, hist[1].amount, TRUE)[2] > 0
    /\ Counters(hist[3].before) # Counters(hist[1].before)

\* ------------------------------------------------------------------ C8
\* The Member a tracked call left behind.
After(i) == IF i = Len(hist) THEN member ELSE hist[i + 1].before

\* C8: a set_delegate call panics and leaves the Member as it was when the
\* delegate book has a nonzero deposit or mega_deposit; otherwise it
\* replaces the delegate book by one of the given owner with zero balances
\* and changes nothing else. No call of any operation changes the owner of
\* a delegate book whose balances are not both zero.
C8_SetDelegate ==
    \A i \in DOMAIN hist :
       LET c == hist[i] IN
       /\ c.op = "set_delegate"
          => IF c.before.books.delegate.balances # Balances(0, 0)
             THEN c.result = Panicked /\ After(i) = c.before
             ELSE /\ c.result = "ok"
                  /\ After(i) = [c.before EXCEPT
                                   !.books.delegate = Book(c.owner, Balances(0, 0))]
       /\ After(i).books.delegate.owner # c.before.books.delegate.owner
          => /\ c.op = "set_delegate"
             /\ c.before.books.delegate.balances = Balances(0, 0)

\* set_delegate has just panicked on a delegate book that holds mega
\* principal only.
C8_Witness ==
    \E i \in Calls("set_delegate") :
       /\ hist[i].result = Panicked
       /\ hist[i].owner # hist[i].before.books.delegate.owner
       /\ hist[i].before.books.delegate.balances = Balances(0, 1)

\* ------------------------------------------------------------------ C9
\* u64 subtraction and addition as the counters perform them when they do
\* not panic.
Minus(a, b) == (a - b) % U64
Plus(a, b) == (a + b) % U64

\* C9: a spt_did_create call that returns Ok adds the amount to the minted
\* pool's share counter and leaves the other one, subtracts basket[0] from
\* stake_intent, subtracts basket[1] from mega_stake_intent only for a mega
\* mint, records the snapshot, and leaves both books and every other field.
C9_SptDidCreate ==
    \A i \in Calls("spt_did_create") :
       LET c      == hist[i]
           basket == Worth(c.prices, c.amount, c.mega)
       IN  c.result = "ok"
           => After(i) =
                [c.before EXCEPT
                   !.books.spt_amount = IF c.mega THEN @ ELSE Plus(@, c.amount),
                   !.books.spt_mega_amount = IF c.mega THEN Plus(@, c.amount) ELSE @,
                   !.books.stake_intent = Minus(@, basket[1]),
                   !.books.mega_stake_intent =
                        IF c.mega THEN Minus(@, basket[2]) ELSE @,
                   !.last_active_prices = c.prices]

\* The scenario of the specification: 100 primary pool shares minted at a
\* basket of [100, 0] from stake_intent = 100 leave stake_intent = 0 and
\* spt_amount = 100.
C9_Witness ==
    \E i \in Calls("spt_did_create") :
       LET c == hist[i] IN
       /\ c.result = "ok" /\ ~c.mega /\ c.amount = 100
       /\ Worth(c.prices, c.amount, FALSE) = <<100, 0>>
       /\ c.before.books.stake_intent = 100 /\ c.before.books.spt_amount = 0
       /\ After(i).books.stake_intent = 0 /\ After(i).books.spt_amount = 100
       /\ After(i).last_active_prices # c.before.last_active_prices

\* ----------------------------------------------------------------- C10
\* C10 as stated: last_active_prices changes only in a spt_did_create call,
\* and every spt_did_create call sets it to the snapshot passed in.
C10_AsStated ==
    \A i \in DOMAIN hist :
       LET c == hist[i] IN
       /\ After(i).last_active_prices # c.before.last_active_prices
          => c.op = "spt_did_create"
       /\ c.op = "spt_did_create"
          => After(i).last_active_prices = c.prices

\* C10, amended: last_active_prices changes only in a spt_did_create call
\* that returns Ok; every such call sets it to the snapshot passed in, and
\* a spt_did_create that fails leaves it as it was.
C10_PricesOnlyOnMint ==
    \A i \in DOMAIN hist :
       LET c == hist[i] IN
       /\ After(i).last_active_prices # c.before.last_active_prices
          => c.op = "spt_did_create" /\ c.result = "ok"
       /\ c.op = "spt_did_create"
          => After(i).last_active_prices =
               IF c.result = "ok" THEN c.prices ELSE c.before.last_active_prices

\* A mega mint has replaced an earlier snapshot by its own.
C10_Witness ==
    \E i \in Calls("spt_did_create") :
       LET c == hist[i] IN
       /\ c.result = "ok" /\ c.mega /\ c.amount > 0
       /\ c.before.last_active_prices # DefaultPrices
       /\ c.prices # c.before.last_active_prices
       /\ After(i).last_active_prices = c.prices

\* ----------------------------------------------------------------- C11
\* A Member with amount moved by Op (Plus or Minus) on the reserve of the
\* asset class and on the principal field of the book the owner selects.
Moved(self, amount, mega, owner, Op(_, _)) ==
    LET delegate == owner = self.books.delegate.owner
        b == self.books
    IN  [self EXCEPT
           !.books.stake_intent = IF mega THEN @ ELSE Op(@, amount),
           !.books.mega_stake_intent = IF mega THEN Op(@, amount) ELSE @,
           !.books.delegate.balances.deposit =
                IF delegate /\ ~mega THEN Op(@, amount) ELSE @,
           !.books.delegate.balances.mega_deposit =
                IF delegate /\ mega THEN Op(@, amount) ELSE @,
           !.books.main.balances.deposit =
                IF ~delegate /\ ~mega THEN Op(@, amount) ELSE @,
           !.books.main.balances.mega_deposit =
                IF ~delegate /\ mega THEN Op(@, amount) ELSE @]

\* C11: a did_deposit call that returns has added the amount to the reserve
\* of the asset class and to the same asset's principal of one book, the
\* delegate book when owner is the delegate book's owner and the main book
\* for every other owner, and has changed nothing else; a did_withdraw call
\* that returns has subtracted the amount from the fields selected by the
\* same rule. The sums and differences are those of u64 arithmetic.
C11_DepositWithdrawFrame ==
    \A i \in Calls("did_deposit") \cup Calls("did_withdraw") :
       LET c == hist[i] IN
       /\ c.result = "ok" /\ c.op = "did_deposit"
          => After(i) = Moved(c.before, c.amount, c.mega, c.owner, Plus)
       /\ c.result = "ok" /\ c.op = "did_withdraw"
          => After(i) = Moved(c.before, c.amount, c.mega, c.owner, Minus)

\* A deposit of 100 by an owner that is neither the beneficiary nor the
\* delegate has been credited to the main book.
C11_Witness ==
    \E i \in Calls("did_deposit") :
       LET c == hist[i] IN
       /\ c.result = "ok" /\ c.amount = 100 /\ ~c.mega
       /\ c.owner \notin {c.before.beneficiary, c.before.books.delegate.owner,
                          c.before.books.main.owner}
       /\ After(i).books.main.balances.deposit = c.before.books.main.balances.deposit + 100
       /\ After(i).books.stake_intent = c.before.books.stake_intent + 100
       /\ After(i).books.delegate = c.before.books.delegate

\* ----------------------------------------------------------------- C12
\* The principal field a deposit or withdrawal of the owner moves.
SelectedPrincipal(self, mega, owner) ==
    LET book == IF owner = self.books.delegate.owner
                THEN self.books.delegate ELSE self.books.main
    IN  IF mega THEN book.balances.mega_deposit ELSE book.balances.deposit

\* The pool-share balance of one pool.
Shares(self, mega) ==
    IF mega THEN self.books.spt_mega_amount ELSE self.books.spt_amount

\* A tracked call asks for more than a counter it decrements holds.
Underflows(c) ==
    \/ /\ c.op = "did_withdraw"
       /\ \/ c.amount > Reserve(c.before, c.mega)
          \/ c.amount > SelectedPrincipal(c.before, c.mega, c.owner)
    \/ /\ c.op = "spt_did_create"
       /\ basket_quantities(c.prices, c.amount, c.mega) # PricingError
       /\ ~Covers(c.before, c.prices, c.amount, c.mega)
    \/ /\ c.op = "spt_did_redeem_start"
       /\ c.amount > Shares(c.before, c.mega)

\* C12: a did_withdraw of more than the reserve or than the selected
\* book's principal, a spt_did_create whose basket exceeds a reserve and a
\* spt_did_redeem_start of more than the pool-share balance each abort:
\* the call panics and no counter of the ledger is changed.
C12_UnderflowFatal ==
    \A i \in DOMAIN hist :
       Underflows(hist[i])
       => hist[i].result = Panicked /\ After(i) = hist[i].before

\* ----------------------------------------------------------------- C13
\* C13: Balances::is_empty returns true if and only if deposit and
\* mega_deposit are both zero, whatever their sum is.
C13_IsEmpty ==
    \A i \in Calls("is_empty") :
       hist[i].result = IF hist[i].amount = 0 /\ hist[i].amount2 = 0
                        THEN "true" ELSE "false"

\* ----------------------------------------------------------------- C14
\* C14: stake_is_empty returns true exactly when spt_amount and
\* spt_mega_amount are both zero, whatever the reserves and the books hold;
\* after a mint of a positive amount that returned Ok it is false, and it
\* turns from false to true only in a spt_did_redeem_start call.
C14_StakeIsEmpty ==
    \A i \in DOMAIN hist :
       LET c == hist[i] IN
       /\ c.op = "stake_is_empty"
          => c.result = (Shares(c.before, FALSE) = 0 /\ Shares(c.before, TRUE) = 0)
       /\ (c.op = "spt_did_create" /\ c.result = "ok" /\ c.amount > 0)
          => ~stake_is_empty(After(i))
       /\ (~stake_is_empty(c.before) /\ stake_is_empty(After(i)))
          => c.op = "spt_did_redeem_start"

\* ----------------------------------------------------------------- C15
\* The fields that identify a Member.
Identity(self) ==
    <<self.initialized, self.registrar, self.entity, self.beneficiary,
      self.generation, self.watchtower, self.books.main.owner>>

QueryOps == {"can_afford", "can_withdraw", "stake_is_empty"}

\* C15: no call of any operation changes initialized, registrar, entity,
\* beneficiary, generation, watchtower or books.main.owner, and a call of
\* can_afford, can_withdraw or stake_is_empty changes no field of the
\* Member, whatever it returns.
C15_IdentityFrame ==
    \A i \in DOMAIN hist :
       /\ Identity(After(i)) = Identity(hist[i].before)
       /\ hist[i].op \in QueryOps => After(i) = hist[i].before

\* A set_delegate call has handed the delegate book to the beneficiary's
\* own key and changed the Member.
C15_Witness ==
    \E i \in Calls("set_delegate") :
       /\ hist[i].result = "ok"
       /\ hist[i].owner = hist[i].before.books.main.owner
       /\ After(i) # hist[i].before

\* ----------------------------------------------------------------- C16
\* C16: a did_withdraw called right after can_withdraw returned true for
\* the same amount, asset class and owner returns, and the amount exceeds
\* neither the reserve nor the principal field of the book the owner
\* selects.
C16_CanWithdrawSufficient ==
    ( /\ Len(hist) = 2
      /\ hist[1].op = "can_withdraw" /\ hist[1].result = OkTrue
      /\ hist[2].op = "did_withdraw" )
    => /\ hist[2].result = "ok"
       /\ hist[2].amount <= Reserve(hist[2].before, hist[2].mega)
       /\ hist[2].amount
            <= SelectedPrincipal(hist[2].before, hist[2].mega, hist[2].owner)

\* ----------------------------------------------------------------- C17
\* hist holds a can_afford that returned true and the spt_did_create of the
\* same snapshot, amount and pool made right after it.
IsAllowedMint ==
    /\ Len(hist) = 2
    /\ hist[1].op = "can_afford" /\ hist[1].result = OkTrue
    /\ hist[2].op = "spt_did_create"

C18_PricingFailureNoChange ==
    \A i \in Calls("spt_did_create") :
       basket_quantities(hist[i].prices, hist[i].amount, hist[i].mega) = PricingError
       => /\ hist[i].result = PricingFailed
          /\ Counters(After(i)) = Counters(hist[i].before)
          /\ After(i).last_active_prices = hist[i].before.last_active_prices

\* ----------------------------------------------------------------- C19
\* C19: after any sequence of did_deposit, did_withdraw and set_delegate
\* calls from MemberBooks::new, each reserve equals the sum of the two
\* books' principal of its asset class.
C19_Attribution ==
    /\ member.books.stake_intent
         = member.books.main.balances.deposit + member.books.delegate.balances.deposit
    /\ member.books.mega_stake_intent
         = member.books.main.balances.mega_deposit
           + member.books.delegate.balances.mega_deposit

\* ----------------------------------------------------------------- C20
\* C20: a spt_did_redeem_start call that returns has subtracted the amount
\* from the share counter of its pool and changed nothing else; a
\* spt_did_redeem_end call that returns has added asset_amount to
\* stake_intent and mega_asset_amount to mega_stake_intent and changed
\* nothing else, so neither touches a book. The sums and differences are
\* those of u64 arithmetic.
C20_RedemptionFrame ==
    \A i \in Calls("spt_did_redeem_start") \cup Calls("spt_did_redeem_end") :
       LET c == hist[i] IN
       /\ c.result = "ok" /\ c.op = "spt_did_redeem_start"
          => After(i) =
               [c.before EXCEPT
                  !.books.spt_amount = IF c.mega THEN @ ELSE Minus(@, c.amount),
                  !.books.spt_mega_amount = IF c.mega THEN Minus(@, c.amount) ELSE @]
       /\ c.result = "ok" /\ c.op = "spt_did_redeem_end"
          => After(i) =
               [c.before EXCEPT
                  !.books.stake_intent = Plus(@, c.amount),
                  !.books.mega_stake_intent = Plus(@, c.amount2)]

\* A redemption has credited 100 primary and 1 mega to reserves that held
\* nothing, while both books record no principal.
C20_Witness ==
    \E i \in Calls("spt_did_redeem_end") :
       LET c == hist[i] IN
       /\ c.result = "ok" /\ c.amount = 100 /\ c.amount2 = 1
       /\ Reserve(c.before, FALSE) = 0 /\ Reserve(c.before, TRUE) = 0
       /\ Reserve(After(i), FALSE) = 100 /\ Reserve(After(i), TRUE) = 1
       /\ After(i).books.main.balances = Balances(0, 0)
       /\ After(i).books.delegate.balances = Balances(0, 0)

====
